---- MODULE Spec2Model ----
(***************************************************************************)
(* Reson8 audio engine (utils/audioEngine.ts) and its host audio graph.    *)
(*                                                                         *)
(* The specifications share the variables below:                          *)
(*   Spec        the live playback state machine: play / pause / stop /    *)
(*               loadFile, the host clock, and the host's                  *)
(*               "ended" events of buffer source nodes;                    *)
(*   SpecScript  the same engine driven by the fixed call sequence         *)
(*               play, pause, play, pause;                                 *)
(*   SpecEffects that sequence with updateEffects and stop() at any point; *)
(*   SpecLive    that sequence with stop(), under the host's progress      *)
(*               guarantees;                                               *)
(*   SpecRender  that sequence with stop() and an exportAudio in flight;   *)
(*   SpecApp     the handlers of App.tsx driving the engine;               *)
(*   SpecSteps   play() executed statement by statement, with the host's   *)
(*               audio thread running beside it;                           *)
(*   SpecReverse cloneBuffer and the reversal of sample data;              *)
(*   SpecWave    bufferToWave, one loop iteration per step;                *)
(*   SpecExport  the sizing of the offline render target in exportAudio.   *)
(*                                                                         *)
(* Time is counted in whole clock units.  Echo feedback is in tenths.      *)
(***************************************************************************)
EXTENDS Integers, Sequences, FiniteSets, TLC

VARIABLES
    engine,        \* fields of the AudioEngine object
    nodes,         \* AudioBufferSourceNodes created so far, in creation order
    connections,   \* edges made by AudioNode.connect
    now,           \* audioContext.currentTime
    decoding,      \* files whose loadFile is suspended in an await
    lastCall,      \* the latest engine call and the exception escaping it, if any
    onEndedCalls,  \* per session: how often the caller's onEnded ran, by cause
    script,        \* SpecScript: position and timestamps of the call sequence
    wave,          \* SpecWave: locals of bufferToWave
    render,        \* the offline context and graph built by exportAudio
    ui,            \* SpecApp: React state of App and its pending restart timers
    heap,          \* SpecReverse: AudioBuffer objects and their sample data
    call           \* SpecSteps: the play() call in progress, statement by statement

vars == <<engine, nodes, connections, now, decoding, lastCall, onEndedCalls,
          script, wave, render, ui, heap, call>>

----------------------------------------------------------------------------
(* Bounds *)

MaxSources == 3     \* play() calls that create a source node
MaxTime == 1        \* clock units the host clock advances in Spec
MaxScriptTime == 2  \* clock units the host clock advances in SpecScript
MaxFrames == 46     \* longest buffer handed to bufferToWave
MaxExportFrames == 24  \* longest short source buffer handed to exportAudio
MaxReverseFrames == 3  \* longest buffer whose samples are tracked
MaxDerived == 2     \* source buffers derived from one loaded buffer
MaxTimers == 2      \* restart timers of toggleReverse pending at once
MaxAppSources == 2  \* play() calls that create a source node in SpecApp
MaxStepSources == 2 \* play() calls that create a source node in SpecSteps

----------------------------------------------------------------------------
(* Inputs *)

NoBuffer == [file |-> 0, numberOfChannels |-> 0, length |-> 0, sampleRate |-> 0]

Files == {1}

\* the AudioBuffer that decodeAudioData yields for a file
DecodedAudio(f) ==
    [file |-> f, numberOfChannels |-> f, length |-> 16000 * f, sampleRate |-> 8000]

\* AudioEffects values the caller passes (types.ts); echoFeedback in tenths
EffectChoices ==
    { [pitch |-> 0, echoDelay |-> 0, echoFeedback |-> 0, isReversed |-> FALSE],
      [pitch |-> 1200, echoDelay |-> 1, echoFeedback |-> 5, isReversed |-> TRUE] }

----------------------------------------------------------------------------
(* Host: AudioBufferSourceNode *)

\* A node is "playing" from start() until it is halted by stop() ("stopped")
\* or its buffer runs out ("finished").  Either way the host then queues one
\* "ended" event for the node, which it later dispatches to node.onended.
NewNode(buf, reversed, detune, offset) ==
    [buffer |-> buf, reversed |-> reversed, detune |-> detune,
     offset |-> offset, st |-> "playing", ev |-> "none", onended |-> FALSE]

Live(n) == n.st = "playing"

\* Once its ended event has been dispatched a node takes no further part in
\* the graph; only how it stopped is kept of it.
Released(n) ==
    [buffer |-> 0, reversed |-> FALSE, detune |-> 0, offset |-> 0,
     st |-> n.st, ev |-> "dispatched", onended |-> FALSE]

\* AudioScheduledSourceNode.stop(): halts a playing node and queues its ended
\* event; on a node that has already stopped it changes nothing.
NodeStop(nds, s) ==
    IF Live(nds[s])
    THEN [nds EXCEPT ![s].st = "stopped", ![s].ev = "queued"]
    ELSE nds

\* Whether stop() on the node may raise InvalidStateError: never on a playing
\* node; on a node that already stopped, hosts differ (webkitAudioContext
\* raises, the current Web Audio specification does not).
NodeStopThrows(nds, s) ==
    IF Live(nds[s]) THEN {FALSE} ELSE {FALSE, TRUE}

----------------------------------------------------------------------------
(* AudioEngine *)

World == [engine |-> engine, nodes |-> nodes, connections |-> connections]

\* graph endpoints: the engine's own nodes carry index 0, a source node its
\* position in nodes
Own(name) == <<name, 0>>
Source(id) == <<"source", id>>

\* the engine-internal graph edges play() connects on every call
FixedEdges ==
    { <<Own("delayNode"), Own("feedbackNode")>>,
      <<Own("feedbackNode"), Own("delayNode")>>,
      <<Own("delayNode"), Own("gainNode")>>,
      <<Own("gainNode"), Own("analyserNode")>>,
      <<Own("analyserNode"), Own("destination")>> }

createSource(w, effects) ==
    NewNode(w.engine.currentBuffer.file, effects.isReversed, effects.pitch, 0)

\* stop() that halts the source and clears the flag but keeps the offset
stopKeepingOffset(w) ==
    [w EXCEPT
        !.nodes = IF w.engine.sourceNode # 0
                  THEN NodeStop(w.nodes, w.engine.sourceNode)
                  ELSE w.nodes,
        !.engine.isPlaying = FALSE]

stop(w) ==
    [w EXCEPT
        !.nodes = IF w.engine.sourceNode # 0
                  THEN NodeStop(w.nodes, w.engine.sourceNode)
                  ELSE w.nodes,
        !.engine.pauseTime = 0,
        !.engine.isPlaying = FALSE]

play(w, effects, t) ==
    LET w1 == IF w.engine.isPlaying THEN stop(w) ELSE w
        id == Len(w1.nodes) + 1
        src == [createSource(w1, effects) EXCEPT
                   !.offset = w1.engine.pauseTime, !.onended = TRUE]
    IN  IF w1.engine.currentBuffer = NoBuffer
        THEN w1
        ELSE [engine |-> [w1.engine EXCEPT
                             !.sourceNode = id,
                             !.delayTime = effects.echoDelay,
                             !.feedbackGain = effects.echoFeedback,
                             !.startTime = t - w1.engine.pauseTime,
                             !.isPlaying = TRUE],
              nodes |-> Append(w1.nodes, src),
              connections |-> w1.connections
                                \cup { <<Source(id), Own("gainNode")>>,
                                       <<Source(id), Own("delayNode")>> }
                                \cup FixedEdges]

\* pause() when its guard holds and sourceNode.stop() returns normally
pause(w, t) ==
    IF w.engine.sourceNode # 0 /\ w.engine.isPlaying
    THEN [w EXCEPT
             !.nodes = NodeStop(w.nodes, w.engine.sourceNode),
             !.engine.pauseTime = t - w.engine.startTime,
             !.engine.isPlaying = FALSE]
    ELSE w

\* an onended closure that resets the offset but leaves the running flag
onendedHandlerKeepingFlag(w) ==
    [w EXCEPT !.engine.pauseTime = 0]

\* the closure play() installs as sourceNode.onended
onendedHandler(w) ==
    [w EXCEPT !.engine.isPlaying = FALSE, !.engine.pauseTime = 0]

\* updateEffects that also re-orients the buffer of the running source
updateEffectsTouchingReversal(w, effects) ==
    [w EXCEPT
        !.engine.delayTime = effects.echoDelay,
        !.engine.feedbackGain = effects.echoFeedback,
        !.nodes = IF w.engine.sourceNode # 0 /\ w.engine.isPlaying
                  THEN [w.nodes EXCEPT ![w.engine.sourceNode].detune = effects.pitch,
                                       ![w.engine.sourceNode].reversed = effects.isReversed]
                  ELSE w.nodes]

\* updateEffects: setTargetAtTime on delay time, feedback gain and, with a
\* running session, the source's detune.  A parameter is recorded by the
\* value it is ramping to.
updateEffects(w, effects) ==
    [w EXCEPT
        !.engine.delayTime = effects.echoDelay,
        !.engine.feedbackGain = effects.echoFeedback,
        !.nodes = IF w.engine.sourceNode # 0 /\ w.engine.isPlaying
                  THEN [w.nodes EXCEPT ![w.engine.sourceNode].detune = effects.pitch]
                  ELSE w.nodes]

SetWorld(w) ==
    /\ engine' = w.engine
    /\ nodes' = w.nodes
    /\ connections' = w.connections

----------------------------------------------------------------------------
(* Initial values *)

Returned(op) == [op |-> op, error |-> "none"]
Threw(op, e) == [op |-> op, error |-> e]

EngineInit ==
    [sourceNode |-> 0, currentBuffer |-> NoBuffer, startTime |-> 0,
     pauseTime |-> 0, isPlaying |-> FALSE, delayTime |-> 0, feedbackGain |-> 10]

ScriptIdle == [step |-> 0, t1 |-> 0, t2 |-> 0, mark |-> 0]
WaveIdle ==
    [pc |-> "idle",
     abuffer |-> [numberOfChannels |-> 0, sampleRate |-> 0, length |-> 0, phase |-> 0],
     view |-> << >>, pos |-> 0, offset |-> 0]
NoContext == [numberOfChannels |-> 0, length |-> 0, sampleRate |-> 0]
NoGraph ==
    [source |-> [buffer |-> 0, reversed |-> FALSE, detune |-> 0, offset |-> 0],
     delayTime |-> 0, feedbackGain |-> 0, connections |-> {}]
RenderIdle ==
    [pc |-> "idle", effects |-> CHOOSE e \in EffectChoices : ~e.isReversed,
     offlineCtx |-> NoContext, graph |-> NoGraph,
     renderedBuffer |-> NoContext, blobSize |-> 0]

\* App.tsx lines 11-20: no file chosen, not playing, neutral effects, and no
\* restart timer pending
UiIdle ==
    [file |-> 0, isPlaying |-> FALSE,
     effects |-> [pitch |-> 0, echoDelay |-> 0, echoFeedback |-> 0,
                  isReversed |-> FALSE],
     timers |-> << >>]

\* no AudioBuffer allocated, none current
HeapIdle == [objects |-> << >>, currentBuffer |-> 0, sources |-> << >>]

\* no play() call is on the stack
CallIdle == [pc |-> 0]

PlaybackInit ==
    /\ engine = EngineInit
    /\ nodes = << >>
    /\ connections = {}
    /\ now = 0
    /\ decoding = {}
    /\ lastCall = Returned("none")
    /\ onEndedCalls = << >>

Init ==
    /\ PlaybackInit
    /\ script = ScriptIdle
    /\ wave = WaveIdle
    /\ render = RenderIdle
    /\ ui = UiIdle
    /\ heap = HeapIdle
    /\ call = CallIdle

----------------------------------------------------------------------------
(* Actions of the playback state machine *)

Play(effects) ==
    /\ Len(nodes) < MaxSources
    /\ SetWorld(play(World, effects, now))
    /\ onEndedCalls' = IF engine.currentBuffer = NoBuffer
                       THEN onEndedCalls
                       ELSE Append(onEndedCalls, [natural |-> 0, halted |-> 0])
    /\ lastCall' = Returned("play")
    /\ UNCHANGED <<now, decoding>>
    /\ UNCHANGED <<script, wave, render, ui, heap, call>>

Pause ==
    \E throws \in IF engine.sourceNode # 0 /\ engine.isPlaying
                  THEN NodeStopThrows(nodes, engine.sourceNode)
                  ELSE {FALSE} :
        /\ IF throws
           THEN /\ lastCall' = Threw("pause", "InvalidStateError")
                /\ UNCHANGED <<engine, nodes, connections>>
           ELSE /\ lastCall' = Returned("pause")
                /\ SetWorld(pause(World, now))
        /\ UNCHANGED <<now, decoding, onEndedCalls>>
        /\ UNCHANGED <<script, wave, render, ui, heap, call>>

\* the try/catch of stop() absorbs whatever sourceNode.stop() raises
Stop ==
    \E throws \in IF engine.sourceNode # 0
                  THEN NodeStopThrows(nodes, engine.sourceNode)
                  ELSE {FALSE} :
        /\ SetWorld(stop(World))
        /\ lastCall' = Returned("stop")
        /\ UNCHANGED <<now, decoding, onEndedCalls>>
        /\ UNCHANGED <<script, wave, render, ui, heap, call>>

\* loadFile up to its awaits
LoadFile(f) ==
    /\ f \notin decoding
    /\ decoding' = decoding \cup {f}
    /\ lastCall' = Returned("loadFile")
    /\ UNCHANGED <<engine, nodes, connections, now, onEndedCalls>>
    /\ UNCHANGED <<script, wave, render, ui, heap, call>>

\* decodeAudioData resolves: loadFile stores the buffer
DecodeResolved(f) ==
    /\ f \in decoding
    /\ decoding' = decoding \ {f}
    /\ engine' = [engine EXCEPT !.currentBuffer = DecodedAudio(f)]
    /\ UNCHANGED <<nodes, connections, now, lastCall, onEndedCalls>>
    /\ UNCHANGED <<script, wave, render, ui, heap, call>>

\* a rejection that drops the buffer loaded before
DecodeRejectedDroppingBuffer(f) ==
    /\ f \in decoding
    /\ decoding' = decoding \ {f}
    /\ engine' = [engine EXCEPT !.currentBuffer = NoBuffer]
    /\ lastCall' = Threw("loadFile", "EncodingError")
    /\ UNCHANGED <<nodes, connections, now, onEndedCalls>>
    /\ UNCHANGED <<script, wave, render, ui, heap, call>>

\* decodeAudioData rejects: loadFile rejects with the host's error without
\* storing anything
DecodeRejected(f) ==
    /\ f \in decoding
    /\ decoding' = decoding \ {f}
    /\ lastCall' = Threw("loadFile", "EncodingError")
    /\ UNCHANGED <<engine, nodes, connections, now, onEndedCalls>>
    /\ UNCHANGED <<script, wave, render, ui, heap, call>>

\* the host clock advances
Tick(limit) ==
    /\ now < limit
    /\ now' = now + 1
    /\ UNCHANGED <<engine, nodes, connections, decoding, lastCall, onEndedCalls>>
    /\ UNCHANGED <<script, wave, render, ui, heap, call>>

\* a playing node reaches the end of its buffer
NaturalEnd(s) ==
    /\ s \in 1..Len(nodes)
    /\ Live(nodes[s])
    /\ nodes' = [nodes EXCEPT ![s].st = "finished", ![s].ev = "queued"]
    /\ UNCHANGED <<engine, connections, now, decoding, lastCall, onEndedCalls>>
    /\ UNCHANGED <<script, wave, render, ui, heap, call>>

\* the host dispatches a node's queued ended event to its onended handler
EndedEvent(s) ==
    /\ s \in 1..Len(nodes)
    /\ nodes[s].ev = "queued"
    /\ LET w == [World EXCEPT !.nodes[s] = Released(nodes[s])]
       IN  IF nodes[s].onended
           THEN /\ SetWorld(onendedHandler(w))
                /\ onEndedCalls' =
                     IF nodes[s].st = "finished"
                     THEN [onEndedCalls EXCEPT ![s].natural = @ + 1]
                     ELSE [onEndedCalls EXCEPT ![s].halted = @ + 1]
           ELSE /\ SetWorld(w)
                /\ UNCHANGED onEndedCalls
    /\ UNCHANGED <<now, decoding, lastCall>>
    /\ UNCHANGED <<script, wave, render, ui, heap, call>>

Next ==
    \/ \E effects \in EffectChoices : Play(effects)
    \/ Pause
    \/ Stop
    \/ \E f \in Files : LoadFile(f)
    \/ \E f \in Files : DecodeResolved(f)
    \/ \E f \in Files : DecodeRejected(f)
    \/ Tick(MaxTime)
    \/ \E s \in 1..MaxSources : NaturalEnd(s)
    \/ \E s \in 1..MaxSources : EndedEvent(s)

Spec == Init /\ [][Next]_vars

----------------------------------------------------------------------------
(* The call sequence play, pause, play, pause on a loaded, idle engine *)

InitScript ==
    /\ PlaybackInit
    /\ script = ScriptIdle
    /\ wave = WaveIdle
    /\ render = RenderIdle
    /\ ui = UiIdle
    /\ heap = HeapIdle
    /\ call = CallIdle

\* the file is loaded before the sequence starts
ScriptLoad ==
    /\ script.step = 0
    /\ engine.currentBuffer = NoBuffer
    /\ engine' = [engine EXCEPT !.currentBuffer = DecodedAudio(1)]
    /\ lastCall' = Returned("loadFile")
    /\ UNCHANGED <<nodes, connections, now, decoding, onEndedCalls>>
    /\ UNCHANGED <<script, wave, render, ui, heap, call>>

\* play() from Idle (step 0) or as the resume after the first pause (step 2)
ScriptPlay(effects) ==
    /\ script.step \in {0, 2}
    /\ engine.currentBuffer # NoBuffer
    /\ SetWorld(play(World, effects, now))
    /\ onEndedCalls' = Append(onEndedCalls, [natural |-> 0, halted |-> 0])
    /\ lastCall' = Returned("play")
    /\ script' = [script EXCEPT !.step = @ + 1, !.mark = now]
    /\ UNCHANGED <<now, decoding, wave, render, ui, heap, call>>

\* pause() after the clock has advanced since the matching play(); the first
\* records t1, the second t2.  A pause() that raises ends the sequence.
ScriptPause ==
    /\ script.step \in {1, 3}
    /\ \E throws \in IF engine.sourceNode # 0 /\ engine.isPlaying
                     THEN NodeStopThrows(nodes, engine.sourceNode)
                     ELSE {FALSE} :
        IF throws
        THEN /\ lastCall' = Threw("pause", "InvalidStateError")
             /\ script' = [script EXCEPT !.step = 5]
             /\ UNCHANGED <<engine, nodes, connections>>
        ELSE /\ lastCall' = Returned("pause")
             /\ SetWorld(pause(World, now))
             /\ script' = IF script.step = 1
                          THEN [script EXCEPT !.step = 2, !.t1 = now - script.mark]
                          ELSE [script EXCEPT !.step = 4, !.t2 = now - script.mark]
    /\ UNCHANGED <<now, decoding, onEndedCalls, wave, render, ui, heap, call>>

NextScript ==
    \/ ScriptLoad
    \/ \E effects \in EffectChoices : ScriptPlay(effects)
    \/ ScriptPause
    \/ Tick(MaxScriptTime)
    \/ \E s \in 1..MaxSources : NaturalEnd(s)
    \/ \E s \in 1..MaxSources : EndedEvent(s)

SpecScript == InitScript /\ [][NextScript]_vars

----------------------------------------------------------------------------
(* The same call sequence with parameter updates and stop() at any point *)

UpdateEffects(effects) ==
    /\ SetWorld(updateEffects(World, effects))
    /\ lastCall' = Returned("updateEffects")
    /\ UNCHANGED <<now, decoding, onEndedCalls>>
    /\ UNCHANGED <<script, wave, render, ui, heap, call>>

NextEffects ==
    \/ NextScript
    \/ \E effects \in EffectChoices : UpdateEffects(effects)
    \/ Stop

SpecEffects == InitScript /\ [][NextEffects]_vars

----------------------------------------------------------------------------
(* The call sequence, with stop() at any point, under the host's progress
   guarantees *)

NextLive ==
    \/ NextScript
    \/ Stop

\* The host plays every started source to the end of its finite buffer
\* unless it is halted first, and dispatches every ended event it queued.
SpecLive ==
    /\ InitScript
    /\ [][NextLive]_vars
    /\ \A s \in 1..MaxSources :
           WF_vars(NaturalEnd(s)) /\ WF_vars(EndedEvent(s))

----------------------------------------------------------------------------
(* bufferToWave *)

\* Sample values are counted in quarters: 4 is 1.0, -1 is -0.25, 6 is 1.5.
SamplePattern == <<4, -4, 0, 2, -1, 6, -6, -2>>

\* abuffer.getChannelData(i)[f] of the buffer an input describes
ChannelData(abuffer, i, f) ==
    SamplePattern[((f * abuffer.numberOfChannels + i + abuffer.phase)
                      % Len(SamplePattern)) + 1]

\* the rendered buffers handed to bufferToWave
WaveInputs ==
    [numberOfChannels : {1, 2}, sampleRate : {8000, 44100},
     length : 1..MaxFrames, phase : 0..2]

\* little-endian bytes of an unsigned value
LE16(n) == << n % 256, (n \div 256) % 256 >>
LE32(n) == << n % 256, (n \div 256) % 256, (n \div 65536) % 256,
              (n \div 16777216) % 256 >>

\* DataView writes of the given bytes at byte offset at
SetBytes(view, at, bytes) ==
    [k \in 1..Len(view) |->
        IF k - 1 >= at /\ k - 1 < at + Len(bytes) THEN bytes[k - at] ELSE view[k]]

\* the local functions of bufferToWave: write at pos, advance pos
setUint16(v, data) ==
    [view |-> SetBytes(v.view, v.pos, LE16(data % 65536)), pos |-> v.pos + 2]
setUint32(v, data) ==
    [view |-> SetBytes(v.view, v.pos, LE32(data)), pos |-> v.pos + 4]

\* view.setInt16(at, sample, true)
setInt16(view, at, sample) == SetBytes(view, at, LE16(sample % 65536))

\* x|0 for a quotient n/d: truncation toward zero
TruncDiv(n, d) == IF n >= 0 THEN n \div d ELSE -((-n) \div d)

Max(a, b) == IF a >= b THEN a ELSE b
Min(a, b) == IF a <= b THEN a ELSE b

\* lines 248-249: clamp, then (0.5 + sample < 0 ? sample * 32768 : sample * 32767)|0
ConvertSample(q) ==
    LET sample == Max(-4, Min(4, q))
    IN  IF 2 + sample < 0
        THEN TruncDiv(sample * 32768, 4)
        ELSE TruncDiv(sample * 32767, 4)

\* the header with a data-chunk length that counts its own length field
WriteHeaderBytesCountingField(abuffer, length, view) ==
    LET numOfChan == abuffer.numberOfChannels
        h1  == setUint32([view |-> view, pos |-> 0], 1179011410)
        h2  == setUint32(h1, length - 8)
        h3  == setUint32(h2, 1163280727)
        h4  == setUint32(h3, 544501094)
        h5  == setUint32(h4, 16)
        h6  == setUint16(h5, 1)
        h7  == setUint16(h6, numOfChan)
        h8  == setUint32(h7, abuffer.sampleRate)
        h9  == setUint32(h8, abuffer.sampleRate * 2 * numOfChan)
        h10 == setUint16(h9, numOfChan * 2)
        h11 == setUint16(h10, 16)
        h12 == setUint32(h11, 1635017060)
    IN  setUint32(h12, length - h12.pos)

\* the header writes, lines 226-240, from pos = 0
WriteHeaderBytes(abuffer, length, view) ==
    LET numOfChan == abuffer.numberOfChannels
        h1  == setUint32([view |-> view, pos |-> 0], 1179011410)   \* "RIFF"
        h2  == setUint32(h1, length - 8)
        h3  == setUint32(h2, 1163280727)                           \* "WAVE"
        h4  == setUint32(h3, 544501094)                            \* "fmt "
        h5  == setUint32(h4, 16)
        h6  == setUint16(h5, 1)
        h7  == setUint16(h6, numOfChan)
        h8  == setUint32(h7, abuffer.sampleRate)
        h9  == setUint32(h8, abuffer.sampleRate * 2 * numOfChan)
        h10 == setUint16(h9, numOfChan * 2)
        h11 == setUint16(h10, 16)
        h12 == setUint32(h11, 1635017060)                          \* "data"
    IN  setUint32(h12, length - h12.pos - 4)

\* one pass of the inner for loop at frame index pos: channels i..numOfChan-1
RECURSIVE InterleaveFrom(_, _, _, _, _)
InterleaveFrom(abuffer, view, pos, offset, i) ==
    IF i >= abuffer.numberOfChannels
    THEN [view |-> view, offset |-> offset]
    ELSE InterleaveFrom(abuffer,
                        setInt16(view, 44 + offset,
                                 ConvertSample(ChannelData(abuffer, i, pos))),
                        pos, offset + 2, i + 1)

InitWave ==
    /\ PlaybackInit
    /\ script = ScriptIdle
    /\ render = RenderIdle
    /\ ui = UiIdle
    /\ heap = HeapIdle
    /\ call = CallIdle
    /\ \E abuffer \in WaveInputs :
          wave = [WaveIdle EXCEPT !.pc = "called", !.abuffer = abuffer]

\* entry: length = len * numOfChan * 2 + 44, a zero-filled ArrayBuffer
WaveAllocate ==
    /\ wave.pc = "called"
    /\ LET length == wave.abuffer.length * wave.abuffer.numberOfChannels * 2 + 44
       IN  wave' = [wave EXCEPT !.pc = "header",
                                !.view = [k \in 1..length |-> 0],
                                !.pos = 0, !.offset = 0]
    /\ UNCHANGED <<engine, nodes, connections, now, decoding, lastCall,
                   onEndedCalls, script, render, ui, heap, call>>

WaveHeader ==
    /\ wave.pc = "header"
    /\ LET h == WriteHeaderBytes(wave.abuffer, Len(wave.view), wave.view)
       IN  wave' = [wave EXCEPT !.pc = "loop", !.view = h.view, !.pos = h.pos]
    /\ UNCHANGED <<engine, nodes, connections, now, decoding, lastCall,
                   onEndedCalls, script, render, ui, heap, call>>

\* one iteration of while (pos < len)
WaveFrame ==
    /\ wave.pc = "loop"
    /\ wave.pos < wave.abuffer.length
    /\ LET r == InterleaveFrom(wave.abuffer, wave.view, wave.pos, wave.offset, 0)
       IN  wave' = [wave EXCEPT !.view = r.view, !.offset = r.offset,
                                !.pos = wave.pos + 1]
    /\ UNCHANGED <<engine, nodes, connections, now, decoding, lastCall,
                   onEndedCalls, script, render, ui, heap, call>>

\* the loop exits and the Blob is returned
WaveReturn ==
    /\ wave.pc = "loop"
    /\ wave.pos >= wave.abuffer.length
    /\ wave' = [wave EXCEPT !.pc = "done"]
    /\ UNCHANGED <<engine, nodes, connections, now, decoding, lastCall,
                   onEndedCalls, script, render, ui, heap, call>>

NextWave ==
    \/ WaveAllocate
    \/ WaveHeader
    \/ WaveFrame
    \/ WaveReturn

SpecWave == InitWave /\ [][NextWave]_vars

----------------------------------------------------------------------------
(* IEEE 754 double arithmetic on non-negative values *)

\* A double is m * 2^e with m a sequence of at most 53 bits, most significant
\* first and starting with 1 (empty for zero).  Every operation computes the
\* exact result and rounds it once to 53 significant bits, ties to even.
\* Exact intermediate results are held as sequences of 15-bit limbs.

Pow2(k) == 2 ^ k

Zeros(k) == [i \in 1..k |-> 0]

RECURSIVE BitsToInt(_)
BitsToInt(m) ==
    IF m = << >> THEN 0 ELSE 2 * BitsToInt(SubSeq(m, 1, Len(m) - 1)) + m[Len(m)]

StripZeros(bits) ==
    IF \A i \in 1..Len(bits) : bits[i] = 0 THEN << >>
    ELSE LET first == CHOOSE i \in 1..Len(bits) :
                          bits[i] = 1 /\ \A j \in 1..(i - 1) : bits[j] = 0
         IN  SubSeq(bits, first, Len(bits))

LimbsToBits(limbs) ==
    StripZeros([i \in 1..(15 * Len(limbs)) |->
                   (limbs[((i - 1) \div 15) + 1] \div Pow2(14 - ((i - 1) % 15))) % 2])

BitsToLimbs(bits) ==
    LET padded == Zeros((15 - (Len(bits) % 15)) % 15) \o bits
    IN  [j \in 1..(Len(padded) \div 15) |->
            BitsToInt(SubSeq(padded, 15 * (j - 1) + 1, 15 * j))]

RECURSIVE IntToLimbs(_)
IntToLimbs(n) ==
    IF n = 0 THEN << >> ELSE Append(IntToLimbs(n \div 32768), n % 32768)

\* m + 1
Inc(m) ==
    IF \A i \in 1..Len(m) : m[i] = 1 THEN <<1>> \o Zeros(Len(m))
    ELSE LET last == CHOOSE i \in 1..Len(m) :
                         m[i] = 0 /\ \A j \in (i + 1)..Len(m) : m[j] = 1
         IN  [i \in 1..Len(m) |-> IF i < last THEN m[i] ELSE IF i = last THEN 1 ELSE 0]

\* round m * 2^e (sticky: a nonzero part below m was cut off) to a double
RoundToDouble(m, e, sticky) ==
    IF Len(m) <= 53 THEN [m |-> m, e |-> e]
    ELSE LET kept == SubSeq(m, 1, 53)
             rest == sticky \/ (\E i \in 55..Len(m) : m[i] = 1)
             up == m[54] = 1 /\ (rest \/ m[53] = 1)
         IN  [m |-> IF up THEN Inc(kept) ELSE kept, e |-> e + (Len(m) - 53)]

FromInt(n) == [m |-> LimbsToBits(IntToLimbs(n)), e |-> 0]

\* long division: k more limbs of r / b below the limbs already in q
RECURSIVE DivLimbs(_, _, _, _)
DivLimbs(q, r, b, k) ==
    IF k = 0 THEN [q |-> q, r |-> r]
    ELSE DivLimbs(Append(q, (r * 32768) \div b), (r * 32768) % b, b, k - 1)

\* a / b for integers 0 <= a, 0 < b < 2^16: ninety bits below the binary
\* point leave at least 55 significant bits before rounding
FDiv(a, b) ==
    LET d == DivLimbs(IntToLimbs(a \div b), a % b, b, 6)
    IN  RoundToDouble(LimbsToBits(d.q), -90, d.r # 0)

\* a + b + carry, the limbs below the current position already in low
RECURSIVE AddLimbs(_, _, _, _)
AddLimbs(a, b, carry, low) ==
    IF a = << >> /\ b = << >> THEN IntToLimbs(carry) \o low
    ELSE LET x == IF a = << >> THEN 0 ELSE a[Len(a)]
             y == IF b = << >> THEN 0 ELSE b[Len(b)]
             as == IF a = << >> THEN a ELSE SubSeq(a, 1, Len(a) - 1)
             bs == IF b = << >> THEN b ELSE SubSeq(b, 1, Len(b) - 1)
         IN  AddLimbs(as, bs, (x + y + carry) \div 32768,
                      <<(x + y + carry) % 32768>> \o low)

FAdd(x, y) ==
    IF x.m = << >> THEN y
    ELSE IF y.m = << >> THEN x
    ELSE LET e == Min(x.e, y.e)
             xs == BitsToLimbs(x.m \o Zeros(x.e - e))
             ys == BitsToLimbs(y.m \o Zeros(y.e - e))
         IN  RoundToDouble(LimbsToBits(AddLimbs(xs, ys, 0, << >>)), e, FALSE)

\* m * n + carry for n < 2^16, the limbs below the current position in low
RECURSIVE MulLimbs(_, _, _, _)
MulLimbs(m, n, carry, low) ==
    IF m = << >> THEN IntToLimbs(carry) \o low
    ELSE MulLimbs(SubSeq(m, 1, Len(m) - 1), n,
                  (m[Len(m)] * n + carry) \div 32768,
                  <<(m[Len(m)] * n + carry) % 32768>> \o low)

\* x times an integer-valued double n < 2^16
FMul(x, n) ==
    RoundToDouble(LimbsToBits(MulLimbs(BitsToLimbs(x.m), n, 0, << >>)), x.e, FALSE)

\* Web IDL conversion of a double to unsigned long: the integer part
ToUnsignedLong(x) ==
    IF x.e >= 0 THEN BitsToInt(x.m \o Zeros(x.e))
    ELSE IF Len(x.m) + x.e <= 0 THEN 0
    ELSE BitsToInt(SubSeq(x.m, 1, Len(x.m) + x.e))

----------------------------------------------------------------------------
(* exportAudio *)

\* AudioBuffer.duration: length / sampleRate
Duration(buffer) == FDiv(buffer.length, buffer.sampleRate)

\* lines 168-174: the OfflineAudioContext exportAudio constructs
OfflineContextFor(buffer, effects) ==
    LET duration == FAdd(Duration(buffer),
                         FromInt(IF effects.echoFeedback > 0 THEN 3 ELSE 0))
    IN  [numberOfChannels |-> buffer.numberOfChannels,
         length |-> ToUnsignedLong(FMul(duration, buffer.sampleRate)),
         sampleRate |-> buffer.sampleRate]

\* nodes created on the OfflineAudioContext
Offline(name) == <<name, -1>>

\* an offline graph whose delay line does not reach the master gain
offlineGraphDryOnly(w, effects) ==
    [source |-> [buffer |-> w.engine.currentBuffer.file,
                 reversed |-> effects.isReversed,
                 detune |-> effects.pitch,
                 offset |-> 0],
     delayTime |-> effects.echoDelay,
     feedbackGain |-> effects.echoFeedback,
     connections |-> { <<Offline("source"), Offline("master")>>,
                       <<Offline("source"), Offline("delay")>>,
                       <<Offline("delay"), Offline("feedback")>>,
                       <<Offline("feedback"), Offline("delay")>>,
                       <<Offline("master"), Offline("destination")>> }]

\* lines 176-209: the graph exportAudio builds in the offline context
offlineGraph(w, effects) ==
    [source |-> [buffer |-> w.engine.currentBuffer.file,
                 reversed |-> effects.isReversed,
                 detune |-> effects.pitch,
                 offset |-> 0],
     delayTime |-> effects.echoDelay,
     feedbackGain |-> effects.echoFeedback,
     connections |-> { <<Offline("source"), Offline("master")>>,
                       <<Offline("source"), Offline("delay")>>,
                       <<Offline("delay"), Offline("feedback")>>,
                       <<Offline("feedback"), Offline("delay")>>,
                       <<Offline("delay"), Offline("master")>>,
                       <<Offline("master"), Offline("destination")>> }]

\* the source buffers exportAudio is tried on: short ones, and 2-second ones
ExportInputs ==
    { [file |-> 1, numberOfChannels |-> c, length |-> l, sampleRate |-> r] :
        c \in {1, 2}, r \in {8000, 44100},
        l \in (1..MaxExportFrames) \cup {2 * 8000, 2 * 44100} }

InitExport ==
    /\ engine \in { [EngineInit EXCEPT !.currentBuffer = b] :
                      b \in ExportInputs \cup {NoBuffer} }
    /\ nodes = << >>
    /\ connections = {}
    /\ now = 0
    /\ decoding = {}
    /\ lastCall = Returned("none")
    /\ onEndedCalls = << >>
    /\ script = ScriptIdle
    /\ wave = WaveIdle
    /\ render = RenderIdle
    /\ ui = UiIdle
    /\ heap = HeapIdle
    /\ call = CallIdle

\* exportAudio up to await offlineCtx.startRendering(); with no buffer loaded,
\* or a context of zero frames (which the host refuses), it throws
ExportAudio(effects) ==
    /\ render.pc = "idle"
    /\ IF engine.currentBuffer = NoBuffer
       THEN /\ render' = [render EXCEPT !.pc = "failed", !.effects = effects]
            /\ lastCall' = Threw("exportAudio", "No audio to export")
       ELSE LET ctx == OfflineContextFor(engine.currentBuffer, effects)
            IN  IF ctx.length = 0
                THEN /\ render' = [render EXCEPT !.pc = "failed", !.effects = effects]
                     /\ lastCall' = Threw("exportAudio", "NotSupportedError")
                ELSE /\ render' = [render EXCEPT !.pc = "rendering",
                                                 !.effects = effects,
                                                 !.offlineCtx = ctx,
                                                 !.graph = offlineGraph(World, effects)]
                     /\ lastCall' = Returned("exportAudio")
    /\ UNCHANGED <<engine, nodes, connections, now, decoding, onEndedCalls,
                   script, wave, ui, heap, call>>

\* startRendering resolves with a buffer of the context's dimensions, and
\* bufferToWave(renderedBuffer, renderedBuffer.length) sizes the Blob
RenderingResolved ==
    /\ render.pc = "rendering"
    /\ render' = [render EXCEPT
                     !.pc = "done",
                     !.renderedBuffer = render.offlineCtx,
                     !.blobSize = render.offlineCtx.length
                                    * render.offlineCtx.numberOfChannels * 2 + 44]
    /\ UNCHANGED <<engine, nodes, connections, now, decoding, lastCall,
                   onEndedCalls, script, wave, ui, heap, call>>

\* a failed render that halts the live session
RenderingRejectedStoppingPlayback ==
    /\ render.pc = "rendering"
    /\ render' = [render EXCEPT !.pc = "failed"]
    /\ SetWorld(stop(World))
    /\ UNCHANGED <<now, decoding, lastCall, onEndedCalls, script, wave, ui, heap, call>>

\* startRendering rejects: exportAudio rejects
RenderingRejected ==
    /\ render.pc = "rendering"
    /\ render' = [render EXCEPT !.pc = "failed"]
    /\ UNCHANGED <<engine, nodes, connections, now, decoding, lastCall,
                   onEndedCalls, script, wave, ui, heap, call>>

NextExport ==
    \/ \E effects \in EffectChoices : ExportAudio(effects)
    \/ RenderingResolved
    \/ RenderingRejected

SpecExport == InitExport /\ [][NextExport]_vars

----------------------------------------------------------------------------
(* An export while the call sequence, with stop() at any point, goes on *)

NextRender ==
    \/ NextScript
    \/ Stop
    \/ NextExport

SpecRender == InitScript /\ [][NextRender]_vars

----------------------------------------------------------------------------
(* Sample data: cloneBuffer and the reversal in createSource / exportAudio *)

\* AudioBuffers live in heap.objects and are referred to by position; the
\* Float32Array getChannelData(i) returns is the buffer's own storage, so a
\* write through it is a write to the buffer.

SampleValues == {-1, 1}

\* the decoded buffers: one or two channels of up to MaxReverseFrames frames
SampleInputs ==
    UNION { [numberOfChannels : {c}, length : {l}, sampleRate : {8000, 44100},
             data : [1..c -> [1..l -> SampleValues]]] :
            c \in {1, 2}, l \in 1..MaxReverseFrames }

\* audioContext.createBuffer: a new zero-filled buffer
createBuffer(h, numberOfChannels, length, sampleRate) ==
    [h EXCEPT !.objects =
        Append(@, [numberOfChannels |-> numberOfChannels, length |-> length,
                   sampleRate |-> sampleRate,
                   data |-> [i \in 1..numberOfChannels |-> [k \in 1..length |-> 0]]])]

\* copyToChannel(source, i) on channel storage: the frames both have, copied
copyToChannel(channel, source) ==
    [k \in 1..Len(channel) |-> IF k <= Len(source) THEN source[k] ELSE channel[k]]

\* a clone that hands back the buffer it was given
cloneBufferAliasing(h, b) == [heap |-> h, id |-> b]

\* cloneBuffer: the heap with the copy in it, and the copy's position
cloneBuffer(h, b) ==
    LET h1 == createBuffer(h, h.objects[b].numberOfChannels, h.objects[b].length,
                           h.objects[b].sampleRate)
        id == Len(h1.objects)
    IN  [heap |-> [h1 EXCEPT !.objects[id].data =
                      [i \in 1..h.objects[b].numberOfChannels |->
                          copyToChannel(@[i], h.objects[b].data[i])]],
         id |-> id]

\* a reversal that moves every sample one place towards the front
reverseRotating(samples) ==
    [k \in 1..Len(samples) |-> samples[(k % Len(samples)) + 1]]

\* Array.prototype.reverse on a channel's samples
reverse(samples) ==
    [k \in 1..Len(samples) |-> samples[Len(samples) + 1 - k]]

\* the loop of lines 64-66 and 182-184: every channel reversed in place
reverseChannels(h, b) ==
    [h EXCEPT !.objects[b].data =
        [i \in 1..h.objects[b].numberOfChannels |-> reverse(@[i])]]

\* lines 63-66: the reversed copy of buffer b
reversedBuffer(h, b) ==
    LET c == cloneBuffer(h, b)
    IN  [heap |-> reverseChannels(c.heap, c.id), id |-> c.id]

\* lines 62-70 and 180-188: the buffer given to a new source node
sourceBuffer(h, effects) ==
    IF effects.isReversed
    THEN reversedBuffer(h, h.currentBuffer)
    ELSE [heap |-> h, id |-> h.currentBuffer]

\* decodeAudioData has produced the buffer and loadFile has stored it
InitReverse ==
    /\ PlaybackInit
    /\ script = ScriptIdle
    /\ wave = WaveIdle
    /\ render = RenderIdle
    /\ ui = UiIdle
    /\ call = CallIdle
    /\ \E b \in SampleInputs :
          heap = [objects |-> <<b>>, currentBuffer |-> 1, sources |-> << >>]

\* createSource, as far as the source's buffer goes
CreateSourceBuffer(effects) ==
    /\ Len(heap.sources) < MaxDerived
    /\ LET r == sourceBuffer(heap, effects)
       IN  heap' = [r.heap EXCEPT !.sources = Append(@, [context |-> "live",
                                                         buffer |-> r.id])]
    /\ UNCHANGED <<engine, nodes, connections, now, decoding, lastCall,
                   onEndedCalls, script, wave, render, ui, call>>

\* exportAudio, as far as the offline source's buffer goes
ExportSourceBuffer(effects) ==
    /\ Len(heap.sources) < MaxDerived
    /\ LET r == sourceBuffer(heap, effects)
       IN  heap' = [r.heap EXCEPT !.sources = Append(@, [context |-> "offline",
                                                         buffer |-> r.id])]
    /\ UNCHANGED <<engine, nodes, connections, now, decoding, lastCall,
                   onEndedCalls, script, wave, render, ui, call>>

NextReverse ==
    \/ \E effects \in EffectChoices : CreateSourceBuffer(effects)
    \/ \E effects \in EffectChoices : ExportSourceBuffer(effects)

SpecReverse == InitReverse /\ [][NextReverse]_vars

----------------------------------------------------------------------------
(* play(), statement by statement *)

\* JavaScript runs play() to completion: while the call is on the stack no
\* other engine call and no event handler runs.  The host's audio thread is
\* not held up by it: the clock advances and a started source may run out of
\* samples at any point, but the ended event this queues is dispatched only
\* once the stack is empty.

Connect(from, to) == [op |-> "connect", from |-> from, to |-> to]
Statement(op) == [op |-> op, from |-> "", to |-> ""]

\* the statements of play() with the onended assignment ahead of the wiring
playBodyArmingFirst ==
    << Statement("onended"),
       Connect("sourceNode", "gainNode"),
       Connect("sourceNode", "delayNode"),
       Connect("delayNode", "feedbackNode"),
       Connect("feedbackNode", "delayNode"),
       Connect("delayNode", "gainNode"),
       Connect("gainNode", "analyserNode"),
       Connect("analyserNode", "destination"),
       Statement("startTime"),
       Statement("start"),
       Statement("isPlaying") >>

\* the statements of play() from the first connect on, in program order
playBody ==
    << Connect("sourceNode", "gainNode"),
       Connect("sourceNode", "delayNode"),
       Connect("delayNode", "feedbackNode"),
       Connect("feedbackNode", "delayNode"),
       Connect("delayNode", "gainNode"),
       Connect("gainNode", "analyserNode"),
       Connect("analyserNode", "destination"),
       Statement("startTime"),
       Statement("start"),
       Statement("isPlaying"),
       Statement("onended") >>

\* the graph endpoint a field of the engine refers to
Endpoint(w, field) ==
    IF field = "sourceNode" THEN Source(w.engine.sourceNode) ELSE Own(field)

\* the world after one statement of play()'s body, executed at clock t
Execute(w, stmt, t) ==
    LET s == w.engine.sourceNode
    IN  CASE stmt.op = "connect" ->
               [w EXCEPT !.connections =
                   @ \cup { <<Endpoint(w, stmt.from), Endpoint(w, stmt.to)>> }]
          [] stmt.op = "startTime" ->
               [w EXCEPT !.engine.startTime = t - w.engine.pauseTime]
          [] stmt.op = "start" ->
               [w EXCEPT !.nodes[s].st = "playing",
                         !.nodes[s].offset = w.engine.pauseTime]
          [] stmt.op = "isPlaying" ->
               [w EXCEPT !.engine.isPlaying = TRUE]
          [] stmt.op = "onended" ->
               [w EXCEPT !.nodes[s].onended = TRUE]

\* no call is on the stack: the main thread may take up another task
BetweenCalls == call.pc = 0

\* play() up to the echo parameters: the guard, createSource and the two
\* parameter assignments; the new node is not yet started
PlayEnter(effects) ==
    /\ BetweenCalls
    /\ Len(nodes) < MaxStepSources
    /\ LET w1 == IF engine.isPlaying THEN stop(World) ELSE World
           id == Len(w1.nodes) + 1
           src == [createSource(w1, effects) EXCEPT !.st = "created"]
       IN  IF w1.engine.currentBuffer = NoBuffer
           THEN /\ SetWorld(w1)
                /\ lastCall' = Returned("play")
                /\ UNCHANGED <<onEndedCalls, call>>
           ELSE /\ SetWorld([w1 EXCEPT
                               !.engine.sourceNode = id,
                               !.engine.delayTime = effects.echoDelay,
                               !.engine.feedbackGain = effects.echoFeedback,
                               !.nodes = Append(@, src)])
                /\ onEndedCalls' = Append(onEndedCalls,
                                          [natural |-> 0, halted |-> 0])
                /\ call' = [pc |-> 1]
                /\ UNCHANGED lastCall
    /\ UNCHANGED <<now, decoding, script, wave, render, ui, heap>>

\* the next statement of the call in progress; after the last one play()
\* returns
PlayStep ==
    /\ call.pc > 0
    /\ SetWorld(Execute(World, playBody[call.pc], now))
    /\ IF call.pc = Len(playBody)
       THEN /\ call' = CallIdle
            /\ lastCall' = Returned("play")
       ELSE /\ call' = [pc |-> call.pc + 1]
            /\ UNCHANGED lastCall
    /\ UNCHANGED <<now, decoding, onEndedCalls, script, wave, render, ui, heap>>

NextSteps ==
    \/ \E effects \in EffectChoices : PlayEnter(effects)
    \/ PlayStep
    \/ BetweenCalls /\ Pause
    \/ BetweenCalls /\ Stop
    \/ \E f \in Files : BetweenCalls /\ LoadFile(f)
    \/ \E f \in Files : BetweenCalls /\ DecodeResolved(f)
    \/ \E s \in 1..MaxStepSources : BetweenCalls /\ EndedEvent(s)
    \/ Tick(MaxTime)
    \/ \E s \in 1..MaxStepSources : NaturalEnd(s)

SpecSteps == Init /\ [][NextSteps]_vars

----------------------------------------------------------------------------
(* App.tsx: the handlers of the UI driving the one engine *)

\* Each action is one event handler run to completion, together with the
\* re-render it causes and, when the effects changed, the useEffect that
\* calls updateEffects.  The buttons are disabled while no file is chosen.
\* The sliders and the reset button are left alone, so only isReversed
\* varies in the effects.

AppFiles == {1, 2}

\* after mount: the useEffect of lines 58-60 has run once
InitApp ==
    /\ engine = updateEffects([engine |-> EngineInit, nodes |-> << >>,
                               connections |-> {}], UiIdle.effects).engine
    /\ nodes = << >>
    /\ connections = {}
    /\ now = 0
    /\ decoding = {}
    /\ lastCall = Returned("updateEffects")
    /\ onEndedCalls = << >>
    /\ script = ScriptIdle
    /\ wave = WaveIdle
    /\ render = RenderIdle
    /\ ui = UiIdle
    /\ heap = HeapIdle
    /\ call = CallIdle

\* handleFileUpload up to the await of loadFile; a file is chosen only while
\* no earlier one is still being decoded
HandleFileUpload(f) ==
    /\ decoding = {}
    /\ ui' = [ui EXCEPT !.file = f, !.isPlaying = FALSE]
    /\ SetWorld(stop(World))
    /\ decoding' = decoding \cup {f}
    /\ lastCall' = Returned("loadFile")
    /\ UNCHANGED <<now, onEndedCalls, script, wave, render, heap, call>>

\* togglePlay; an exception of pause() leaves the handler before
\* setIsPlaying(false)
TogglePlay ==
    /\ ui.file # 0
    /\ IF ui.isPlaying
       THEN \E throws \in IF engine.sourceNode # 0 /\ engine.isPlaying
                           THEN NodeStopThrows(nodes, engine.sourceNode)
                           ELSE {FALSE} :
                /\ IF throws
                   THEN /\ lastCall' = Threw("pause", "InvalidStateError")
                        /\ UNCHANGED <<engine, nodes, connections, ui>>
                   ELSE /\ lastCall' = Returned("pause")
                        /\ SetWorld(pause(World, now))
                        /\ ui' = [ui EXCEPT !.isPlaying = FALSE]
                /\ UNCHANGED onEndedCalls
       ELSE /\ Len(nodes) < MaxAppSources
            /\ SetWorld(play(World, ui.effects, now))
            /\ onEndedCalls' = IF engine.currentBuffer = NoBuffer
                               THEN onEndedCalls
                               ELSE Append(onEndedCalls, [natural |-> 0, halted |-> 0])
            /\ lastCall' = Returned("play")
            /\ ui' = [ui EXCEPT !.isPlaying = TRUE]
    /\ UNCHANGED <<now, decoding, script, wave, render, heap, call>>

HandleStop ==
    /\ ui.file # 0
    /\ SetWorld(stop(World))
    /\ lastCall' = Returned("stop")
    /\ ui' = [ui EXCEPT !.isPlaying = FALSE]
    /\ UNCHANGED <<now, decoding, onEndedCalls, script, wave, render, heap, call>>

\* toggleReverse: the timer's closure holds the effects of this render with
\* the new flag; wasRunning notes whether stop() met a playing session
ToggleReverse ==
    /\ ui.file # 0
    /\ ui.isPlaying => Len(ui.timers) < MaxTimers
    /\ LET newReverseState == ~ui.effects.isReversed
           effects == [ui.effects EXCEPT !.isReversed = newReverseState]
           wasRunning == /\ engine.isPlaying
                         /\ engine.sourceNode # 0
                         /\ Live(nodes[engine.sourceNode])
       IN  /\ SetWorld(updateEffects(IF ui.isPlaying THEN stop(World) ELSE World,
                                     effects))
           /\ ui' = [ui EXCEPT
                        !.effects = effects,
                        !.timers = IF ui.isPlaying
                                   THEN Append(@, [effects |-> effects,
                                                   wasRunning |-> wasRunning])
                                   ELSE @]
    /\ lastCall' = Returned("updateEffects")
    /\ UNCHANGED <<now, decoding, onEndedCalls, script, wave, render, heap, call>>

\* the oldest pending 50 ms timer fires: play() with the closure's effects
RestartTimer ==
    /\ ui.timers # << >>
    /\ Len(nodes) < MaxAppSources
    /\ SetWorld(play(World, Head(ui.timers).effects, now))
    /\ onEndedCalls' = IF engine.currentBuffer = NoBuffer
                       THEN onEndedCalls
                       ELSE Append(onEndedCalls, [natural |-> 0, halted |-> 0])
    /\ lastCall' = Returned("play")
    /\ ui' = [ui EXCEPT !.timers = Tail(@)]
    /\ UNCHANGED <<now, decoding, script, wave, render, heap, call>>

\* a queued ended event is dispatched: the onended closure of play(), whose
\* onEnded is the caller's () => setIsPlaying(false)
AppEndedEvent(s) ==
    /\ s \in 1..Len(nodes)
    /\ nodes[s].ev = "queued"
    /\ LET w == [World EXCEPT !.nodes[s] = Released(nodes[s])]
       IN  IF nodes[s].onended
           THEN /\ SetWorld(onendedHandler(w))
                /\ onEndedCalls' =
                     IF nodes[s].st = "finished"
                     THEN [onEndedCalls EXCEPT ![s].natural = @ + 1]
                     ELSE [onEndedCalls EXCEPT ![s].halted = @ + 1]
                /\ ui' = [ui EXCEPT !.isPlaying = FALSE]
           ELSE /\ SetWorld(w)
                /\ UNCHANGED <<onEndedCalls, ui>>
    /\ UNCHANGED <<now, decoding, lastCall, script, wave, render, heap, call>>

NextApp ==
    \/ \E f \in AppFiles : HandleFileUpload(f)
    \/ \E f \in AppFiles : DecodeResolved(f)
    \/ \E f \in AppFiles : DecodeRejected(f)
    \/ TogglePlay
    \/ HandleStop
    \/ ToggleReverse
    \/ RestartTimer
    \/ \E s \in 1..MaxAppSources : NaturalEnd(s)
    \/ \E s \in 1..MaxAppSources : AppEndedEvent(s)

SpecApp == InitApp /\ [][NextApp]_vars

----------------------------------------------------------------------------
(* Claims about the playback state machine (checked under Spec) *)

LiveSources(nds) == { s \in 1..Len(nds) : Live(nds[s]) }

\* the engine holds a retained offset of a paused session
Paused == ~engine.isPlaying /\ engine.pauseTime > 0

\* C1: the caller's completion handler runs at most once per session and only
\* because the session's source reached its natural end, never because the
\* source was halted by stop() (explicit, or the one play() performs).
C1_CompletionOnlyOnNaturalEnd ==
    \A s \in 1..Len(onEndedCalls) :
        /\ onEndedCalls[s].halted = 0
        /\ onEndedCalls[s].natural + onEndedCalls[s].halted <= 1

\* C2: at most one source started by the engine is live at any time.
C2_AtMostOneLiveSource ==
    Cardinality(LiveSources(nodes)) <= 1

\* C3: pause() on a running session clears the running flag and sets the
\* offset to the time played; while Paused, every step other than a play() or
\* stop() call leaves the offset unchanged; and the next play() starts its
\* source at that offset.
C3_PausedOffsetRetained ==
    [][ /\ (engine.isPlaying /\ Pause /\ lastCall'.error = "none")
            => (~engine'.isPlaying /\ engine'.pauseTime = now - engine.startTime)
        /\ (Paused /\ ~(\E e \in EffectChoices : Play(e)) /\ ~Stop)
            => engine'.pauseTime = engine.pauseTime
        /\ (Paused /\ (\E e \in EffectChoices : Play(e)))
            => /\ Len(nodes') = Len(nodes) + 1
               /\ nodes'[Len(nodes')].offset = engine.pauseTime ]_vars

\* C5: whenever the running flag is set, play(p) yields the same engine and
\* graph as stop() followed by play(p): running flag set, the new source
\* started at offset zero, and that source the only live one.
C5_PlayWhileRunningIsStopThenPlay ==
    \A e \in EffectChoices :
        engine.isPlaying =>
            LET w == play(World, e, now)
                v == play(stop(World), e, now)
            IN  /\ w = v
                /\ w.engine.isPlaying
                /\ w.nodes[w.engine.sourceNode].offset = 0
                /\ LiveSources(w.nodes) = {w.engine.sourceNode}

\* C6: from every state stop() returns without an error, leaves the offset at
\* zero and the running flag clear, and a second stop() changes nothing.
C6_StopTotalIdempotent ==
    /\ ENABLED Stop
    /\ LET w == stop(World)
       IN  /\ w.engine.pauseTime = 0
           /\ ~w.engine.isPlaying
           /\ stop(w) = w
    /\ lastCall.op = "stop" =>
           /\ lastCall.error = "none"
           /\ engine.pauseTime = 0
           /\ ~engine.isPlaying
           /\ stop(World) = World

\* stop() has acted on a session that was playing from a retained offset
C6_Witness ==
    /\ lastCall = Returned("stop")
    /\ engine.sourceNode # 0
    /\ nodes[engine.sourceNode].st = "stopped"
    /\ nodes[engine.sourceNode].offset > 0
    /\ engine.pauseTime = 0
    /\ ~engine.isPlaying

----------------------------------------------------------------------------
(* Claim about the call sequence (checked under SpecScript) *)

NoneFinished == \A s \in 1..Len(nodes) : nodes[s].st # "finished"

\* C4: after play from Idle, pause after t1, play, pause after t2, with no
\* source having run out, the cumulative offset is t1 + t2.
C4_PauseResumeAdditive ==
    (script.step = 4 /\ NoneFinished) =>
        engine.pauseTime = script.t1 + script.t2

----------------------------------------------------------------------------
(* Claims about bufferToWave (checked under SpecWave) *)

U16At(view, at) == view[at + 1] + 256 * view[at + 2]
U32At(view, at) ==
    view[at + 1] + 256 * view[at + 2] + 65536 * view[at + 3] + 16777216 * view[at + 4]
S16At(view, at) ==
    IF U16At(view, at) >= 32768 THEN U16At(view, at) - 65536 ELSE U16At(view, at)

\* the conversion as specified: clamp, negative * 32768, non-negative * 32767
ScaleAsSpecified(q) ==
    LET sample == Max(-4, Min(4, q))
    IN  IF sample < 0
        THEN TruncDiv(sample * 32768, 4)
        ELSE TruncDiv(sample * 32767, 4)

\* C7: in the returned bytes the 16-bit value of sample[c][f] stands at byte
\* offset 44 + 2*(f*C + c), for every frame f and channel c of the input.
C7_EveryFrameEncoded ==
    wave.pc = "done" =>
        \A f \in 0..(wave.abuffer.length - 1) :
            \A c \in 0..(wave.abuffer.numberOfChannels - 1) :
                S16At(wave.view, 44 + 2 * (f * wave.abuffer.numberOfChannels + c))
                    = ConvertSample(ChannelData(wave.abuffer, c, f))

\* C8: every payload word the encoder has written is its sample clamped to
\* [-1, 1] and scaled by 32768 if negative, by 32767 otherwise, and lies in
\* [-32768, 32767].
C8_AsymmetricScaling ==
    wave.pc \in {"loop", "done"} =>
        \A f \in 44..(wave.pos - 1) :
            \A c \in 0..(wave.abuffer.numberOfChannels - 1) :
                LET word == S16At(wave.view,
                                  44 + 2 * ((f - 44) * wave.abuffer.numberOfChannels + c))
                IN  /\ word = ScaleAsSpecified(ChannelData(wave.abuffer, c, f))
                    /\ word >= -32768
                    /\ word <= 32767

\* C9: the output is 44 + F*C*2 bytes long and its header holds the RIFF
\* length (total - 8), format-chunk length 16, format tag 1, channel count,
\* sample rate, byte rate R*C*2, block alignment C*2, 16 bits per sample and
\* the data-chunk length F*C*2.
C9_HeaderFields ==
    wave.pc = "done" =>
        LET C == wave.abuffer.numberOfChannels
            F == wave.abuffer.length
            R == wave.abuffer.sampleRate
        IN  /\ Len(wave.view) = 44 + F * C * 2
            /\ U32At(wave.view, 4) = Len(wave.view) - 8
            /\ U32At(wave.view, 16) = 16
            /\ U16At(wave.view, 20) = 1
            /\ U16At(wave.view, 22) = C
            /\ U32At(wave.view, 24) = R
            /\ U32At(wave.view, 28) = R * C * 2
            /\ U16At(wave.view, 32) = C * 2
            /\ U16At(wave.view, 34) = 16
            /\ U32At(wave.view, 40) = F * C * 2

\* a stereo buffer at 44100 Hz, long enough for the loop to run, was encoded
C9_Witness ==
    /\ wave.pc = "done"
    /\ wave.abuffer.numberOfChannels = 2
    /\ wave.abuffer.sampleRate = 44100
    /\ wave.abuffer.length > 44
    /\ wave.offset > 0

----------------------------------------------------------------------------
(* Claim about exportAudio (checked under SpecExport) *)

\* C10: the offline render target has (source length + tail * sampleRate)
\* frames, tail being 3 seconds if echoFeedback > 0 and 0 otherwise, at the
\* source's sample rate and channel count.
C10_RenderTargetSize ==
    render.pc \in {"rendering", "done"} =>
        LET buffer == engine.currentBuffer
            tail == IF render.effects.echoFeedback > 0 THEN 3 ELSE 0
        IN  /\ render.offlineCtx.length = buffer.length + tail * buffer.sampleRate
            /\ render.offlineCtx.sampleRate = buffer.sampleRate
            /\ render.offlineCtx.numberOfChannels = buffer.numberOfChannels

----------------------------------------------------------------------------
(* Claims about loadFile and the guard of play() (checked under Spec) *)

\* C12: a loadFile that fails in decoding leaves the engine, its sources and
\* its graph unchanged and surfaces the error; a buffer loaded before stays
\* current and play() on it starts a session; and the current buffer is
\* always either absent or a completely decoded one.
C12_FailedLoadLeavesEngine ==
    /\ [](engine.currentBuffer \in {NoBuffer} \cup { DecodedAudio(f) : f \in Files })
    /\ [][ \A f \in Files :
              DecodeRejected(f) =>
                  /\ engine' = engine
                  /\ nodes' = nodes
                  /\ connections' = connections
                  /\ lastCall'.error # "none"
                  /\ engine.currentBuffer # NoBuffer =>
                         \A e \in EffectChoices :
                             LET w == play([engine |-> engine', nodes |-> nodes',
                                            connections |-> connections'], e, now')
                             IN  /\ w.engine.isPlaying
                                 /\ w.nodes[w.engine.sourceNode].buffer
                                        = engine.currentBuffer.file ]_vars

\* a load has failed while an earlier buffer was loaded and had been played
C12_Witness ==
    /\ lastCall = Threw("loadFile", "EncodingError")
    /\ engine.currentBuffer = DecodedAudio(1)
    /\ Len(nodes) > 0

\* C13: play() with no buffer loaded signals the missing source to its caller
\* and creates no source, leaves the flag, offset and start reference as they
\* were and never invokes the completion handler.
C13_NoSourceSignalled ==
    (lastCall.op = "play" /\ engine.currentBuffer = NoBuffer) =>
        /\ lastCall.error = "NoSourceError"
        /\ nodes = << >>
        /\ onEndedCalls = << >>
        /\ engine = EngineInit

----------------------------------------------------------------------------
(* Claim about updateEffects (checked under SpecEffects) *)

\* C14: in every state updateEffects leaves the running flag, the offset, the
\* start reference, the current source, the loaded buffer, the graph edges
\* and every source's buffer, orientation, start offset and play state
\* unchanged; it sets delay time and feedback gain to the given values and
\* changes the detune of the current source only, and only while running.
C14_UpdateKeepsSession ==
    \A e \in EffectChoices :
        LET w == updateEffects(World, e)
        IN  /\ w.engine.isPlaying = engine.isPlaying
            /\ w.engine.pauseTime = engine.pauseTime
            /\ w.engine.startTime = engine.startTime
            /\ w.engine.sourceNode = engine.sourceNode
            /\ w.engine.currentBuffer = engine.currentBuffer
            /\ w.connections = connections
            /\ Len(w.nodes) = Len(nodes)
            /\ \A s \in 1..Len(nodes) :
                   /\ [w.nodes[s] EXCEPT !.detune = nodes[s].detune] = nodes[s]
                   /\ w.nodes[s].detune # nodes[s].detune =>
                          (s = engine.sourceNode /\ engine.isPlaying)
            /\ w.engine.delayTime = e.echoDelay
            /\ w.engine.feedbackGain = e.echoFeedback
            /\ (engine.sourceNode # 0 /\ engine.isPlaying) =>
                   w.nodes[engine.sourceNode].detune = e.pitch

\* updateEffects with the reversed preset has retargeted a session that
\* was resumed from an offset and plays the buffer forwards
C14_Witness ==
    /\ lastCall = Returned("updateEffects")
    /\ engine.isPlaying
    /\ engine.sourceNode # 0
    /\ Live(nodes[engine.sourceNode])
    /\ ~nodes[engine.sourceNode].reversed
    /\ nodes[engine.sourceNode].detune = 1200
    /\ nodes[engine.sourceNode].offset > 0
    /\ engine.feedbackGain = 5

----------------------------------------------------------------------------
(* Claims about reversal (checked under SpecReverse) *)

\* C15: no step changes which buffer is current or the samples, dimensions
\* or sample rate of any buffer that exists, the loaded one included; and a
\* source derived with reversed set gets a buffer of its own that holds the
\* loaded buffer's channels backwards, one derived without gets the loaded
\* buffer itself.
C15_CanonicalUntouched ==
    [][ /\ heap'.currentBuffer = heap.currentBuffer
        /\ \A b \in 1..Len(heap.objects) : heap'.objects[b] = heap.objects[b]
        /\ \A s \in (Len(heap.sources) + 1)..Len(heap'.sources) :
               LET src == heap'.sources[s].buffer
                   canonical == heap.objects[heap.currentBuffer]
               IN  \/ /\ src = heap.currentBuffer
                      /\ Len(heap'.objects) = Len(heap.objects)
                   \/ /\ src > Len(heap.objects)
                      /\ \A i \in 1..canonical.numberOfChannels :
                             heap'.objects[src].data[i] = reverse(canonical.data[i]) ]_vars

\* both play() and exportAudio have derived a reversed source from a stereo
\* buffer that reads differently backwards
C15_Witness ==
    /\ Len(heap.sources) = 2
    /\ heap.sources[1].context = "live"
    /\ heap.sources[2].context = "offline"
    /\ heap.sources[1].buffer # 1
    /\ heap.sources[2].buffer # 1
    /\ heap.objects[1].numberOfChannels = 2
    /\ heap.objects[heap.sources[1].buffer].data # heap.objects[1].data

\* C20: for every buffer of the heap, the reversed copy of its reversed copy
\* holds the buffer's samples in every channel, and a reversed copy has the
\* channel count, frame count and sample rate of what it was made from.
C20_ReverseTwiceIsIdentity ==
    \A b \in 1..Len(heap.objects) :
        \A r1 \in {reversedBuffer(heap, b)} :
            \A r2 \in {reversedBuffer(r1.heap, r1.id)} :
                LET o == heap.objects[b]
                IN  /\ r2.heap.objects[r2.id] = o
                    /\ r1.heap.objects[r1.id] =
                           [numberOfChannels |-> o.numberOfChannels,
                            length |-> o.length,
                            sampleRate |-> o.sampleRate,
                            data |-> [i \in 1..o.numberOfChannels |->
                                        [k \in 1..o.length |->
                                            o.data[i][o.length + 1 - k]]]]

\* the heap holds the reversed copy of a stereo buffer of three frames whose
\* channels both read differently backwards
C20_Witness ==
    /\ Len(heap.objects) >= 2
    /\ heap.objects[1].numberOfChannels = 2
    /\ heap.objects[1].length >= 3
    /\ \A i \in 1..2 : heap.objects[2].data[i] # heap.objects[1].data[i]
    /\ \A i \in 1..2 : heap.objects[2].data[i] = reverse(heap.objects[1].data[i])

----------------------------------------------------------------------------
(* Claims about the application (checked under SpecApp) *)

\* C11: every source that is playing plays the buffer that is current: once
\* a load has replaced the buffer, no session started on the buffer loaded
\* before is still running.
C11_LoadInvalidatesSession ==
    \A s \in 1..Len(nodes) :
        Live(nodes[s]) => nodes[s].buffer = engine.currentBuffer.file

\* C16: when the last pending restart timer of a reverse toggle that met a
\* running session fires, exactly one source is playing afterwards, it is
\* the engine's current source, and its buffer is reversed iff the caller's
\* reversed flag is set.
C16_RestartMatchesToggle ==
    [][ (RestartTimer /\ Head(ui.timers).wasRunning /\ ui'.timers = << >>) =>
            /\ LiveSources(nodes') = {engine'.sourceNode}
            /\ nodes'[engine'.sourceNode].reversed = ui'.effects.isReversed ]_vars

----------------------------------------------------------------------------
(* Claim about natural completion (checked under SpecLive) *)

\* C17: every playing source is eventually halted by pause() or stop(), or
\* runs out and has its ended event dispatched with the caller's handler
\* invoked once for it; and the dispatch of a run-out source's ended event
\* clears the running flag, resets the offset to zero and invokes the
\* handler.
C17_NaturalCompletion ==
    /\ \A s \in 1..MaxSources :
           [](( s <= Len(nodes) /\ Live(nodes[s]) ) =>
                <>( /\ s <= Len(nodes)
                    /\ \/ nodes[s].st = "stopped"
                       \/ /\ nodes[s].st = "finished"
                          /\ nodes[s].ev = "dispatched"
                          /\ onEndedCalls[s].natural = 1 ))
    /\ [][ \A s \in 1..MaxSources :
              (EndedEvent(s) /\ nodes[s].st = "finished") =>
                  /\ ~engine'.isPlaying
                  /\ engine'.pauseTime = 0
                  /\ onEndedCalls'[s].natural = onEndedCalls[s].natural + 1 ]_vars

\* the current session, left alone since its play(), has run out after the
\* clock advanced and its ended event has been dispatched
C17_Witness ==
    /\ lastCall = Returned("play")
    /\ engine.sourceNode # 0
    /\ nodes[engine.sourceNode].st = "finished"
    /\ nodes[engine.sourceNode].ev = "dispatched"
    /\ onEndedCalls[engine.sourceNode] = [natural |-> 1, halted |-> 0]
    /\ now > engine.startTime
    /\ ~engine.isPlaying
    /\ engine.pauseTime = 0

----------------------------------------------------------------------------
(* Claims about exportAudio and live playback (checked under SpecRender) *)

\* C18: every step of exportAudio, from its call to the resolution or the
\* rejection of the render, leaves the engine's fields, the source nodes,
\* the live graph, the clock and the completion handlers' record unchanged,
\* whatever play, pause and stop calls come in between.
C18_RenderLeavesPlayback ==
    [][ render' # render =>
            /\ engine' = engine
            /\ nodes' = nodes
            /\ connections' = connections
            /\ now' = now
            /\ onEndedCalls' = onEndedCalls ]_vars

\* a render has failed while a session resumed from an offset is playing
C18_Witness ==
    /\ render.pc = "failed"
    /\ render.offlineCtx # NoContext
    /\ engine.isPlaying
    /\ engine.sourceNode # 0
    /\ Live(nodes[engine.sourceNode])
    /\ nodes[engine.sourceNode].offset > 0

\* a node's place in the topology; the live master gain and the offline
\* master are the mix stage, whatever follows the mix is the sink
Stage(endpoint) ==
    CASE endpoint[1] = "source" -> "source"
      [] endpoint[1] \in {"gainNode", "master"} -> "mix"
      [] endpoint[1] \in {"delayNode", "delay"} -> "delay"
      [] endpoint[1] \in {"feedbackNode", "feedback"} -> "feedback"
      [] OTHER -> "sink"

\* the edges of a graph up to the mix stage, by stage
UpToMix(edges) ==
    { <<Stage(e[1]), Stage(e[2])>> : e \in { d \in edges : Stage(d[2]) # "sink" } }

\* C19: in every state with a buffer loaded and for every parameter set, the
\* graph exportAudio builds and the graph play() wires for its new source
\* have the same edges up to the mix stage (source->mix, source->delay,
\* delay->feedback, feedback->delay, delay->mix), the same source buffer,
\* reversed iff isReversed, detune = pitch, delay time = echoDelay and
\* feedback gain = echoFeedback; the offline source starts at offset zero;
\* and a render in progress runs on that graph.
C19_OfflineGraphMatchesLive ==
    /\ engine.currentBuffer # NoBuffer =>
           \A e \in EffectChoices :
               LET w == play(World, e, now)
                   id == w.engine.sourceNode
                   live == w.nodes[id]
                   wired == { d \in w.connections :
                                d[1][1] = "source" => d[1] = Source(id) }
                   g == offlineGraph(World, e)
               IN  /\ UpToMix(g.connections) = UpToMix(wired)
                   /\ UpToMix(g.connections) =
                          { <<"source", "mix">>, <<"source", "delay">>,
                            <<"delay", "feedback">>, <<"feedback", "delay">>,
                            <<"delay", "mix">> }
                   /\ g.source.buffer = live.buffer
                   /\ g.source.reversed = live.reversed
                   /\ g.source.reversed = e.isReversed
                   /\ g.source.detune = live.detune
                   /\ g.source.detune = e.pitch
                   /\ g.delayTime = w.engine.delayTime
                   /\ g.delayTime = e.echoDelay
                   /\ g.feedbackGain = w.engine.feedbackGain
                   /\ g.feedbackGain = e.echoFeedback
                   /\ g.source.offset = 0
                   /\ <<Own("gainNode"), Own("analyserNode")>> \in wired
                   /\ <<Offline("master"), Offline("destination")>> \in g.connections
    /\ render.pc = "rendering" => render.graph = offlineGraph(World, render.effects)

\* a reversed, echoing render is in progress while a session with the same
\* parameters, resumed from an offset, is playing
C19_Witness ==
    /\ render.pc = "rendering"
    /\ render.effects.isReversed
    /\ render.graph.source.reversed
    /\ engine.isPlaying
    /\ engine.sourceNode # 0
    /\ Live(nodes[engine.sourceNode])
    /\ nodes[engine.sourceNode].reversed
    /\ nodes[engine.sourceNode].offset > 0

----------------------------------------------------------------------------
(* Claims about the running flag (checked under Spec and SpecApp) *)

\* the engine's current source has been started and has neither been halted
\* nor had its ended event dispatched
CurrentSourceSounding ==
    /\ engine.sourceNode # 0
    /\ nodes[engine.sourceNode].st # "stopped"
    /\ nodes[engine.sourceNode].ev # "dispatched"

\* C22: in every reachable state the running flag is set if and only if the
\* engine's current source has been started and has neither been halted nor
\* ended; and the ended event of an earlier, already replaced source never
\* clears the flag or resets the offset of the session that replaced it.
C22_FlagTracksLiveSource ==
    /\ [](engine.isPlaying <=> CurrentSourceSounding)
    /\ [][\A s \in 1..MaxSources :
             (EndedEvent(s) /\ s # engine.sourceNode)
                 => /\ engine'.isPlaying = engine.isPlaying
                    /\ engine'.pauseTime = engine.pauseTime]_vars

\* nothing is pending: no restart timer, no decode, no ended event
Quiescent ==
    /\ ui.timers = << >>
    /\ decoding = {}
    /\ \A s \in 1..Len(nodes) : nodes[s].ev # "queued"

\* C23: in every quiescent state (no restart timer, decode or ended event
\* pending) the caller's isPlaying flag equals the engine's running flag, for
\* every interleaving of file upload, play/pause toggle, stop, reverse toggle,
\* the restart timer and ended events.
C23_CallerFlagAgrees ==
    Quiescent => (ui.isPlaying = engine.isPlaying)

----------------------------------------------------------------------------
(* Claims about the order of play()'s statements (checked under SpecSteps) *)

Started(n) == n.st # "created"

\* the edges of the live graph that carry source s
WiredEdges(s) ==
    { <<Source(s), Own("gainNode")>>, <<Source(s), Own("delayNode")>> }
        \cup FixedEdges

\* C21: within one play() call every graph connection is made before the
\* source is started, the source is started and the running flag set before
\* the completion callback is armed, and a session's completion callback
\* never fires before that session's source has started.
C21_PlayStepsOrdered ==
    [][\A s \in 1..MaxStepSources :
          /\ (s <= Len(nodes) /\ ~Started(nodes[s]) /\ Started(nodes'[s]))
                => WiredEdges(s) \subseteq connections
          /\ (s <= Len(nodes) /\ ~nodes[s].onended /\ nodes'[s].onended)
                => (Started(nodes[s]) /\ engine.isPlaying)
          /\ (s <= Len(onEndedCalls) /\ onEndedCalls'[s] # onEndedCalls[s])
                => Started(nodes[s])]_vars

\* the second session was wired, started and armed by a play() call that has
\* returned, and its completion callback has fired at the natural end
C21_Witness ==
    /\ call.pc = 0
    /\ Len(nodes) = 2
    /\ WiredEdges(2) \subseteq connections
    /\ onEndedCalls[2].natural = 1


====
